---- MODULE Spec2Model ----
(***************************************************************************)
(* Model of convert_schwab_csv_to_txf.py: a Schwab 1099-B CSV export is    *)
(* converted to a TXF file.  Text is a sequence of one-character strings,  *)
(* so that strip, replace, upper, float parsing, date parsing and          *)
(* formatting are computed character by character as the Python code does. *)
(* Amounts are held in thousandths of a dollar (exact integers).           *)
(***************************************************************************)
EXTENDS Integers, Sequences, FiniteSets, TLC

(***************************************************************************)
(* Bounds of the model.                                                    *)
(***************************************************************************)
\* the number of data rows the reader yields in one run
MaxRows == 2

(***************************************************************************)
(* Python string primitives.                                               *)
(***************************************************************************)
\* the value csv.DictReader gives a header column that a short row lacks
None == <<"None">>

Whitespace == {" ", "\t", "\r", "\n"}

Digits == <<"0", "1", "2", "3", "4", "5", "6", "7", "8", "9">>

LowerLetters == <<"a", "b", "c", "d", "e", "f", "g", "h", "i", "j", "k", "l", "m",
                  "n", "o", "p", "q", "r", "s", "t", "u", "v", "w", "x", "y", "z">>

UpperLetters == <<"A", "B", "C", "D", "E", "F", "G", "H", "I", "J", "K", "L", "M",
                  "N", "O", "P", "Q", "R", "S", "T", "U", "V", "W", "X", "Y", "Z">>

IsDigit(c) == \E i \in 1..10 : Digits[i] = c

DigitVal(c) == (CHOOSE i \in 1..10 : Digits[i] = c) - 1

AllDigits(s) == \A i \in 1..Len(s) : IsDigit(s[i])

RECURSIVE lstrip(_)
lstrip(s) ==
  IF s = <<>> THEN s
  ELSE IF Head(s) \in Whitespace THEN lstrip(Tail(s)) ELSE s

RECURSIVE rstrip(_)
rstrip(s) ==
  IF s = <<>> THEN s
  ELSE IF s[Len(s)] \in Whitespace THEN rstrip(SubSeq(s, 1, Len(s) - 1)) ELSE s

\* str.strip()
strip(s) == rstrip(lstrip(s))

\* str.startswith(p)
startswith(s, p) == Len(s) >= Len(p) /\ SubSeq(s, 1, Len(p)) = p

\* str.replace(",", "")
remove_commas(s) == SelectSeq(s, LAMBDA c : c # ",")

upper_char(c) ==
  IF \E i \in 1..26 : LowerLetters[i] = c
  THEN UpperLetters[CHOOSE i \in 1..26 : LowerLetters[i] = c]
  ELSE c

lower_char(c) ==
  IF \E i \in 1..26 : UpperLetters[i] = c
  THEN LowerLetters[CHOOSE i \in 1..26 : UpperLetters[i] = c]
  ELSE c

\* str.upper()
upper(s) == [i \in 1..Len(s) |-> upper_char(s[i])]

\* str.lower()
lower(s) == [i \in 1..Len(s) |-> lower_char(s[i])]

\* str.split(sep) for a one-character separator
RECURSIVE split(_, _)
split(s, sep) ==
  IF \E i \in 1..Len(s) : s[i] = sep
  THEN LET k == CHOOSE i \in 1..Len(s) :
                  s[i] = sep /\ \A j \in 1..(i - 1) : s[j] # sep
       IN  <<SubSeq(s, 1, k - 1)>> \o split(SubSeq(s, k + 1, Len(s)), sep)
  ELSE <<s>>

\* the value of a string of decimal digits
RECURSIVE digits_value(_)
digits_value(s) ==
  IF s = <<>> THEN 0
  ELSE 10 * digits_value(SubSeq(s, 1, Len(s) - 1)) + DigitVal(s[Len(s)])

\* the decimal digits of a natural number
RECURSIVE nat_text(_)
nat_text(n) ==
  IF n < 10 THEN <<Digits[n + 1]>>
  ELSE nat_text(n \div 10) \o <<Digits[(n % 10) + 1]>>

\* a natural number, zero-padded on the left to at least w digits
RECURSIVE zero_pad(_, _)
zero_pad(s, w) == IF Len(s) >= w THEN s ELSE zero_pad(<<"0">> \o s, w)

(***************************************************************************)
(* float(s) on decimal literals: surrounding whitespace is ignored, then   *)
(* an optional sign, digits, and an optional fraction.  The value is kept  *)
(* in thousandths.  Exponent forms, "inf" and "nan" are outside the        *)
(* alphabet of the inputs this model draws.                                *)
(***************************************************************************)
\* the first three fraction digits, as thousandths
frac_thousandths(f) == digits_value(SubSeq(f \o <<"0", "0", "0">>, 1, 3))

unsigned_float(u) ==
  LET parts == split(u, ".")
  IN  IF Len(parts) = 1
      THEN IF u # <<>> /\ AllDigits(u)
           THEN [ok |-> TRUE, val |-> 1000 * digits_value(u)]
           ELSE [ok |-> FALSE, val |-> 0]
      ELSE IF /\ Len(parts) = 2
              /\ AllDigits(parts[1]) /\ AllDigits(parts[2])
              /\ Len(parts[1]) + Len(parts[2]) > 0
           THEN [ok |-> TRUE,
                 val |-> 1000 * digits_value(parts[1]) + frac_thousandths(parts[2])]
           ELSE [ok |-> FALSE, val |-> 0]

\* float(s): ok is FALSE where Python raises ValueError
float(s) ==
  LET t == strip(s)
  IN  IF t # <<>> /\ Head(t) = "-"
      THEN LET r == unsigned_float(Tail(t)) IN [ok |-> r.ok, val |-> 0 - r.val]
      ELSE IF t # <<>> /\ Head(t) = "+"
           THEN unsigned_float(Tail(t))
           ELSE unsigned_float(t)

(***************************************************************************)
(* f"{x:.2f}": the amount rounded to the nearest cent.  An amount exactly  *)
(* halfway between two cents is rounded by the binary representation of    *)
(* the float, which may fall on either side: both results are allowed.     *)
(***************************************************************************)
Abs(x) == IF x < 0 THEN 0 - x ELSE x

cents_text(neg, c) ==
  (IF neg THEN <<"-">> ELSE <<>>)
    \o nat_text(c \div 100) \o <<".">> \o zero_pad(nat_text(c % 100), 2)

format_2f(x) ==
  LET q == Abs(x) \div 10
      r == Abs(x) % 10
      cs == IF r < 5 THEN {q} ELSE IF r > 5 THEN {q + 1} ELSE {q, q + 1}
  IN  {cents_text(x < 0, c) : c \in cs}

(***************************************************************************)
(* datetime.strptime(s, "%m/%d/%Y") and .strftime("%m/%d/%Y").             *)
(***************************************************************************)
is_leap(y) == (y % 4 = 0 /\ y % 100 # 0) \/ y % 400 = 0

days_in_month(y, m) ==
  IF m = 2 THEN (IF is_leap(y) THEN 29 ELSE 28)
  ELSE IF m \in {4, 6, 9, 11} THEN 30 ELSE 31

\* %m: one or two digits, 1..12
month_field(s) == Len(s) \in {1, 2} /\ AllDigits(s) /\ digits_value(s) \in 1..12

\* %d: one or two digits, 1..31, or a space and one digit 1..9
day_text(s) == IF Len(s) = 2 /\ s[1] = " " THEN Tail(s) ELSE s

day_field(s) ==
  /\ Len(s) \in {1, 2}
  /\ AllDigits(day_text(s))
  /\ digits_value(day_text(s)) \in 1..31

\* %Y: exactly four digits; datetime needs year >= 1
year_field(s) == Len(s) = 4 /\ AllDigits(s) /\ digits_value(s) >= 1

\* strptime: ok is FALSE where Python raises ValueError
strptime(s) ==
  LET p == split(s, "/")
  IN  IF /\ Len(p) = 3
         /\ month_field(p[1]) /\ day_field(p[2]) /\ year_field(p[3])
         /\ digits_value(day_text(p[2]))
              <= days_in_month(digits_value(p[3]), digits_value(p[1]))
      THEN [ok |-> TRUE, m |-> digits_value(p[1]),
            d |-> digits_value(day_text(p[2])), y |-> digits_value(p[3])]
      ELSE [ok |-> FALSE, m |-> 0, d |-> 0, y |-> 0]

strftime(dt) ==
  zero_pad(nat_text(dt.m), 2) \o <<"/">> \o zero_pad(nat_text(dt.d), 2)
    \o <<"/">> \o zero_pad(nat_text(dt.y), 4)

(***************************************************************************)
(* Literal texts of the program.                                           *)
(***************************************************************************)
HEADER_PREFIX ==
  <<"\"", "D", "e", "s", "c", "r", "i", "p", "t", "i", "o", "n", " ", "o",
    "f", " ", "p", "r", "o", "p", "e", "r", "t", "y", " ", "(", "E", "x",
    "a", "m", "p", "l", "e", " ", "1", "0", "0", " ", "s", "h", ".", " ",
    "X", "Y", "Z", " ", "C", "o", ".", ")", "\"">>

COL_DESCRIPTION ==
  <<"D", "e", "s", "c", "r", "i", "p", "t", "i", "o", "n", " ", "o", "f",
    " ", "p", "r", "o", "p", "e", "r", "t", "y", " ", "(", "E", "x", "a",
    "m", "p", "l", "e", " ", "1", "0", "0", " ", "s", "h", ".", " ", "X",
    "Y", "Z", " ", "C", "o", ".", ")">>

COL_DATE_ACQUIRED ==
  <<"D", "a", "t", "e", " ", "a", "c", "q", "u", "i", "r", "e", "d">>

COL_DATE_SOLD ==
  <<"D", "a", "t", "e", " ", "s", "o", "l", "d", " ", "o", "r", " ", "d",
    "i", "s", "p", "o", "s", "e", "d">>

COL_PROCEEDS == <<"P", "r", "o", "c", "e", "e", "d", "s">>

COL_BASIS ==
  <<"C", "o", "s", "t", " ", "o", "r", " ", "o", "t", "h", "e", "r", " ",
    "b", "a", "s", "i", "s">>

COL_WASH ==
  <<"W", "a", "s", "h", " ", "s", "a", "l", "e", " ", "l", "o", "s", "s",
    " ", "d", "i", "s", "a", "l", "l", "o", "w", "e", "d">>

COL_FORM_CODE ==
  <<"F", "o", "r", "m", " ", "8", "9", "4", "9", " ", "C", "o", "d", "e">>

TXF_VERSION == <<"V", "0", "4", "2">>

TXF_SOURCE ==
  <<"A", "C", "h", "a", "r", "l", "e", "s", " ", "S", "c", "h", "w", "a",
    "b">>

TXF_EXPORT_DATE == <<"D", "0", "2", "/", "2", "3", "/", "2", "0", "2", "5">>

VARIOUS_LOWER == <<"v", "a", "r", "i", "o", "u", "s">>

VARIOUS_UPPER == <<"V", "A", "R", "I", "O", "U", "S">>

DEFAULT_AMOUNT == <<"0", ".", "0", "0">>

N321 == <<"N", "3", "2", "1">>

N711 == <<"N", "7", "1", "1">>

N712 == <<"N", "7", "1", "2">>

N323 == <<"N", "3", "2", "3">>

N713 == <<"N", "7", "1", "3">>

N714 == <<"N", "7", "1", "4">>

DisclaimerLine ==
  <<"F", "o", "r", "m", " ", "1", "0", "9", "9", "-", "B", "\n">>

BlankLine == <<"\n">>

TD_LINE == <<"T", "D">>

C1_LINE == <<"C", "1">>

L1_LINE == <<"L", "1">>

CARET_LINE == <<"^">>

quoted(s) == <<"\"">> \o s \o <<"\"">>

(***************************************************************************)
(* Input files: the lines up to and including the header row.  The data    *)
(* rows that follow are drawn one at a time as the reader yields them.     *)
(***************************************************************************)
\* a header row with all seven recognised columns
FullHeaderLine ==
  quoted(COL_DESCRIPTION) \o <<",">> \o quoted(COL_DATE_ACQUIRED) \o <<",">>
    \o quoted(COL_DATE_SOLD) \o <<",">> \o quoted(COL_PROCEEDS) \o <<",">>
    \o quoted(COL_BASIS) \o <<",">> \o quoted(COL_WASH) \o <<",">>
    \o quoted(COL_FORM_CODE) \o <<"\n">>

\* an indented header row without the wash-sale and form-code columns
ShortHeaderLine ==
  <<" ", " ">> \o quoted(COL_DESCRIPTION) \o <<",">>
    \o quoted(COL_DATE_ACQUIRED) \o <<",">> \o quoted(COL_DATE_SOLD)
    \o <<",">> \o quoted(COL_PROCEEDS) \o <<",">> \o quoted(COL_BASIS)
    \o <<"\r", "\n">>

\* a row naming the columns without the opening quote: not a header
UnquotedHeaderLine ==
  COL_DESCRIPTION \o <<",">> \o COL_DATE_ACQUIRED \o <<"\n">>

InputFiles ==
  { <<FullHeaderLine>>,
    <<DisclaimerLine, BlankLine, ShortHeaderLine>>,
    <<DisclaimerLine, UnquotedHeaderLine>>,
    <<>> }

\* the dates the run may take place on
Dates == { [m |-> 2, d |-> 23, y |-> 2025], [m |-> 11, d |-> 4, y |-> 2026] }

\* what may be at the output path before the run
StaleLine == <<"o", "l", "d">>

OutputFilesBefore ==
  { [exists |-> FALSE, content |-> <<>>],
    [exists |-> TRUE, content |-> <<StaleLine>>] }

(***************************************************************************)
(* Data rows.  A row is the sequence of field values the csv reader splits *)
(* a line into.  The first value of each list is the field of a valid row. *)
(***************************************************************************)
DescValues ==
  << <<" ", "1", "0", "0", " ", "s", "h", ".", " ", "X", "Y", "Z", " ">> >>

AcquiredValues ==
  << <<"0", "1", "/", "1", "5", "/", "2", "0", "2", "3">>,
     <<>>,
     <<"V", "a", "r", "i", "o", "u", "s">>,
     <<"1", "/", "5", "/", "2", "0", "2", "3">>,
     <<"1", "3", "/", "4", "5", "/", "2", "0", "2", "4">> >>

SoldValues ==
  << <<"0", "2", "/", "0", "1", "/", "2", "0", "2", "4">>,
     <<"0", "2", "/", "3", "0", "/", "2", "0", "2", "4">>,
     <<" ", "2", "/", "1", "/", "2", "0", "2", "4">> >>

ProceedsValues ==
  << <<"1", ",", "5", "0", "0", ".", "0", "0">>,
     <<"a", "b", "c">>,
     <<>> >>

BasisValues ==
  << <<"1", ",", "0", "0", "0", ".", "0", "0">>,
     <<>> >>

WashValues ==
  << <<>>,
     <<"0", ".", "0", "0">>,
     <<"0", ".", "0", "0", "1">>,
     <<"$", "2", "5", ".", "0", "0">>,
     <<"x">>,
     <<"-", "0", ".", "0", "0", "4">>,
     <<"0", ".", "0", "0", "5">> >>

CodeValues ==
  << <<"A">>,
     <<"B">>,
     <<"C">>,
     <<"D">>,
     <<"E">>,
     <<"F">>,
     <<"X">>,
     <<" ", "d", " ">>,
     <<>>,
     <<"Z">> >>

FieldValues ==
  << DescValues, AcquiredValues, SoldValues, ProceedsValues, BasisValues,
     WashValues, CodeValues >>

\* the row of seven valid fields
BaseRow == [i \in 1..7 |-> FieldValues[i][1]]

\* rows of seven fields in which at most one field, among the first n,
\* departs from the valid row
FullRows(n) ==
  UNION { { [BaseRow EXCEPT ![i] = FieldValues[i][k]] :
              k \in 1..Len(FieldValues[i]) } : i \in 1..n }

BadProceedsRow == [BaseRow EXCEPT ![4] = FieldValues[4][2]]

\* a second valid row: other dates, amounts, a wash sale and a long-term code
SecondRow ==
  << FieldValues[1][1], FieldValues[2][3], FieldValues[3][3],
     <<"1", "0", ".", "0", "0", "4">>, <<"7", ".", "5">>,
     FieldValues[6][4], FieldValues[7][4] >>

\* rows with fewer fields than a header of n columns
ShortRows(n) ==
  { SubSeq(BaseRow, 1, m) : m \in {1, n - 1} } \cup { SubSeq(BadProceedsRow, 1, 4) }

\* the rows the reader may yield under a header of n columns; under a header
\* of fewer than seven columns the rows of seven fields have fields to spare
Rows(n) ==
  LET k == IF n < 7 THEN n ELSE 7
  IN  FullRows(k) \cup {SecondRow} \cup ShortRows(k)

\* every row the reader may yield, under a header of five or of seven columns
AllRows == Rows(5) \cup Rows(7)

(***************************************************************************)
(* csv.DictReader: the header row gives the field names; a row shorter     *)
(* than the header has None for the columns it lacks, and the fields       *)
(* beyond the header are kept under a key the program never reads.         *)
(***************************************************************************)
\* the commas of a line that are outside quotes
separators(s) ==
  { i \in 1..Len(s) :
      /\ s[i] = ","
      /\ Cardinality({ j \in 1..(i - 1) : s[j] = "\"" }) % 2 = 0 }

\* the position of the k-th separator; 0 before the first, Len + 1 after the last
separator_at(s, k) ==
  IF k = 0 THEN 0
  ELSE IF k > Cardinality(separators(s)) THEN Len(s) + 1
  ELSE CHOOSE i \in separators(s) :
         Cardinality({ j \in separators(s) : j < i }) = k - 1

\* the fields of one line: commas outside quotes separate, quotes are dropped
csv_fields(line) ==
  [ k \in 1..(Cardinality(separators(line)) + 1) |->
      SelectSeq(SubSeq(line, separator_at(line, k - 1) + 1,
                       separator_at(line, k) - 1),
                LAMBDA c : c # "\"") ]

\* row.get(key, default)
dict_get(fields, r, key, default) ==
  IF \E i \in 1..Len(fields) : fields[i] = key
  THEN LET i == CHOOSE j \in 1..Len(fields) :
                  fields[j] = key /\ \A k \in (j + 1)..Len(fields) : fields[k] # key
       IN  IF i <= Len(r) THEN r[i] ELSE None
  ELSE default

(***************************************************************************)
(* The steps of the loop body of convert_schwab_csv_to_txf.                *)
(***************************************************************************)
\* the seven values the loop body reads from the row
row_values(fields, r) ==
  [ description   |-> dict_get(fields, r, COL_DESCRIPTION, <<>>),
    date_acquired |-> dict_get(fields, r, COL_DATE_ACQUIRED, <<>>),
    date_sold     |-> dict_get(fields, r, COL_DATE_SOLD, <<>>),
    proceeds      |-> dict_get(fields, r, COL_PROCEEDS, DEFAULT_AMOUNT),
    basis         |-> dict_get(fields, r, COL_BASIS, DEFAULT_AMOUNT),
    wash          |-> dict_get(fields, r, COL_WASH, DEFAULT_AMOUNT),
    form_8949_code |-> dict_get(fields, r, COL_FORM_CODE, <<>>) ]

\* a method call on None raises AttributeError
raises_attribute_error(v) == \E k \in DOMAIN v : v[k] = None

\* remove the dollar sign from the wash sale value
strip_dollar(wash) == IF startswith(wash, <<"$">>) THEN Tail(wash) ELSE wash

\* extract and clean the data
clean_values(v) ==
  [ description   |-> strip(v.description),
    date_acquired |-> strip(v.date_acquired),
    date_sold     |-> strip(v.date_sold),
    proceeds      |-> strip(remove_commas(v.proceeds)),
    basis         |-> strip(remove_commas(v.basis)),
    wash          |-> strip_dollar(strip(remove_commas(v.wash))),
    form_8949_code |-> upper(strip(v.form_8949_code)) ]

\* float(wash) if wash else 0.0
wash_value(wash) == IF wash # <<>> THEN float(wash) ELSE [ok |-> TRUE, val |-> 0]

\* validate the monetary values
monetary_values_ok(c) ==
  float(c.proceeds).ok /\ float(c.basis).ok /\ wash_value(c.wash).ok

\* the wash-adjusted gain or loss of one transaction
wash_adjusted_gain_loss(proceeds_float, basis_float, wash_float) ==
  proceeds_float - (basis_float - wash_float)

\* the handling of the date acquired with an empty date left empty
resolve_date_acquired_keeps_empty(date_acquired, date_sold_formatted) ==
  IF lower(date_acquired) = VARIOUS_LOWER
  THEN [ok |-> TRUE, text |-> VARIOUS_UPPER]
  ELSE IF date_acquired = <<>> \/ strptime(date_acquired).ok
       THEN [ok |-> TRUE, text |-> date_acquired]
       ELSE [ok |-> FALSE, text |-> <<>>]

\* handle the date acquired
resolve_date_acquired(date_acquired, date_sold_formatted) ==
  IF date_acquired = <<>>
  THEN [ok |-> TRUE, text |-> date_sold_formatted]
  ELSE IF lower(date_acquired) = VARIOUS_LOWER
       THEN [ok |-> TRUE, text |-> VARIOUS_UPPER]
       ELSE IF strptime(date_acquired).ok
            THEN [ok |-> TRUE, text |-> strftime(strptime(date_acquired))]
            ELSE [ok |-> FALSE, text |-> <<>>]

\* the mapping with the long-term codes given the short-term record types
form_8949_to_record_type_short_term(code) ==
  CASE code = <<"A">> -> N321
    [] code = <<"B">> -> N711
    [] code = <<"C">> -> N712
    [] code = <<"D">> -> N321
    [] code = <<"E">> -> N711
    [] code = <<"F">> -> N712
    [] OTHER -> N711

\* the mapping of Form 8949 codes to TXF record types, N711 by default
form_8949_to_record_type(code) ==
  CASE code = <<"A">> -> N321
    [] code = <<"B">> -> N711
    [] code = <<"C">> -> N712
    [] code = <<"D">> -> N323
    [] code = <<"E">> -> N713
    [] code = <<"F">> -> N714
    [] code = <<"X">> -> N711
    [] OTHER -> N711

\* the basis total assigned instead of accumulated
new_total_basis_assigned(total, basis_float) == basis_float

\* the running totals after a row that is written
new_total_proceeds(total, proceeds_float) == total + proceeds_float

new_total_basis(total, basis_float) == total + basis_float

new_total_wash(total, wash_float) == total + wash_float

\* the wash argument handed to write_txf_record
wash_argument(wash, wash_float) == IF wash_float # 0 THEN wash ELSE <<>>

(***************************************************************************)
(* write_txf_header and write_txf_record.                                  *)
(***************************************************************************)
header_lines == <<TXF_VERSION, TXF_SOURCE, TXF_EXPORT_DATE, CARET_LINE>>

\* the wash sale line included whenever the formatted text is not "0.00"
include_wash_line_by_text(wash_formatted) == wash_formatted # DEFAULT_AMOUNT

\* the wash sale line is included only if the formatted amount is non-zero
include_wash_line(wash_formatted) == float(wash_formatted).val # 0

\* the formatted wash amounts: "0.00" when the argument is empty
wash_formats(wash) ==
  IF wash # <<>> THEN format_2f(float(wash).val) ELSE {DEFAULT_AMOUNT}

\* the record block without its terminator line
record_lines_unterminated(description, date_acquired, date_sold, proceeds_formatted, basis_formatted, wash_formatted, record_type) ==
  << TD_LINE, record_type, C1_LINE, L1_LINE,
     <<"P">> \o description,
     <<"D">> \o date_acquired,
     <<"D">> \o date_sold,
     <<"$">> \o basis_formatted,
     <<"$">> \o proceeds_formatted >>
    \o (IF float(wash_formatted).val # 0
        THEN << <<"$">> \o wash_formatted >> ELSE <<>>)

record_lines(description, date_acquired, date_sold, proceeds_formatted, basis_formatted, wash_formatted, record_type) ==
  << TD_LINE, record_type, C1_LINE, L1_LINE,
     <<"P">> \o description,
     <<"D">> \o date_acquired,
     <<"D">> \o date_sold,
     <<"$">> \o basis_formatted,
     <<"$">> \o proceeds_formatted >>
    \o (IF include_wash_line(wash_formatted)
        THEN << <<"$">> \o wash_formatted >> ELSE <<>>)
    \o <<CARET_LINE>>

\* the record blocks write_txf_record may write for its arguments
write_txf_record(description, date_acquired, date_sold, proceeds, basis, wash, record_type) ==
  { record_lines(description, date_acquired, date_sold, pf, bf, wf, record_type) :
      pf \in format_2f(float(proceeds).val),
      bf \in format_2f(float(basis).val),
      wf \in wash_formats(wash) }

(***************************************************************************)
(* State.                                                                  *)
(***************************************************************************)
VARIABLES
  pc,            \* the position of the run
  csv_file,      \* the input file: whether it exists, and its lines
  today,         \* the date of the run
  txf_file,      \* the output file: whether it exists, and its lines
  lines,         \* the lines read from the input file
  header_found,  \* whether a line with the header text was found
  header_index,  \* the position of that line in lines
  fieldnames,    \* the field names the reader takes from the header row
  n_rows,        \* the number of rows the reader has yielded
  row,           \* the row of the current iteration
  outcome,       \* how the current iteration ended
  total_proceeds,
  total_basis,
  total_wash,
  total_wash_adjusted_gain_loss,
  stdout,        \* the messages printed
  exc,           \* the exception that left convert_schwab_csv_to_txf
  written        \* the rows whose record was written, with their amounts

vars ==
  << pc, csv_file, today, txf_file, lines, header_found, header_index,
     fieldnames, n_rows, row, outcome, total_proceeds, total_basis,
     total_wash, total_wash_adjusted_gain_loss, stdout, exc, written >>

environment == <<csv_file, today>>

totals ==
  <<total_proceeds, total_basis, total_wash, total_wash_adjusted_gain_loss>>

located == <<lines, header_found, header_index, fieldnames>>

message(kind, msg, data) == [kind |-> kind, msg |-> msg, data |-> data]

Init ==
  /\ pc = "main"
  /\ csv_file \in
       { [exists |-> FALSE, lines |-> <<>>] }
         \cup { [exists |-> TRUE, lines |-> f] : f \in InputFiles }
  /\ today \in Dates
  /\ txf_file \in OutputFilesBefore
  /\ lines = <<>>
  /\ header_found = FALSE
  /\ header_index = 0
  /\ fieldnames = <<>>
  /\ n_rows = 0
  /\ row = <<>>
  /\ outcome = "none"
  /\ total_proceeds = 0
  /\ total_basis = 0
  /\ total_wash = 0
  /\ total_wash_adjusted_gain_loss = 0
  /\ stdout = <<>>
  /\ exc = "none"
  /\ written = <<>>

(***************************************************************************)
(* Reading the input and locating the header.                              *)
(***************************************************************************)
\* open(csv_file_path, 'r') and readlines()
ReadLines ==
  /\ pc = "main"
  /\ IF csv_file.exists
     THEN /\ lines' = csv_file.lines
          /\ pc' = "locate"
          /\ exc' = exc
     ELSE /\ lines' = lines
          /\ pc' = "except"
          /\ exc' = "FileNotFoundError"
  /\ UNCHANGED << environment, txf_file, header_found, header_index,
                  fieldnames, n_rows, row, outcome, totals, stdout, written >>

\* the lines whose stripped text starts with the name of the first column
header_matches_unquoted(ls) ==
  { i \in 1..Len(ls) : startswith(strip(ls[i]), COL_DESCRIPTION) }

\* the lines whose stripped text starts with the header text
header_matches(ls) ==
  { i \in 1..Len(ls) : startswith(strip(ls[i]), HEADER_PREFIX) }

\* the scan for the header row; ValueError when there is none
LocateHeader ==
  /\ pc = "locate"
  /\ IF header_matches(lines) # {}
     THEN LET i == CHOOSE j \in header_matches(lines) :
                     \A k \in header_matches(lines) : j <= k
          IN  /\ header_found' = TRUE
              /\ header_index' = i
              /\ fieldnames' = csv_fields(strip(lines[i]))
              /\ pc' = "open"
              /\ exc' = exc
     ELSE /\ UNCHANGED <<header_found, header_index, fieldnames>>
          /\ pc' = "except"
          /\ exc' = "ValueError"
  /\ UNCHANGED << environment, txf_file, lines, n_rows, row, outcome,
                  totals, stdout, written >>

(***************************************************************************)
(* Writing the output.                                                     *)
(***************************************************************************)
\* open(txf_file_path, 'w') creates or truncates the output file
OpenOutput ==
  /\ pc = "open"
  /\ txf_file' = [exists |-> TRUE, content |-> <<>>]
  /\ pc' = "header"
  /\ UNCHANGED << environment, located, n_rows, row, outcome, totals,
                  stdout, exc, written >>

write_txf_header ==
  /\ pc = "header"
  /\ txf_file' = [txf_file EXCEPT !.content = @ \o header_lines]
  /\ pc' = "rows"
  /\ UNCHANGED << environment, located, n_rows, row, outcome, totals,
                  stdout, exc, written >>

\* how one iteration ends: the exception raised, the message printed, the
\* amounts parsed, the wash-adjusted gain added and the record blocks that may
\* be written
row_result(raised, msg, proceeds_float, basis_float, wash_float, records) ==
  [ raised |-> raised, msg |-> msg,
    proceeds |-> proceeds_float, basis |-> basis_float, wash |-> wash_float,
    adjusted |-> wash_adjusted_gain_loss(proceeds_float, basis_float, wash_float),
    records |-> records ]

\* the loop body from the handling of the date acquired on
process_acquired(c, proceeds_float, basis_float, wash_float, date_sold_formatted, acquired) ==
  IF ~acquired.ok
  THEN row_result("ValueError", "Invalid Date acquired format",
                  proceeds_float, basis_float, wash_float, {})
  ELSE row_result("none", "", proceeds_float, basis_float, wash_float,
                  write_txf_record(c.description, acquired.text,
                                   date_sold_formatted, c.proceeds, c.basis,
                                   wash_argument(c.wash, wash_float),
                                   form_8949_to_record_type(c.form_8949_code)))

\* the loop body from the validation of the date sold on
process_dates(c, proceeds_float, basis_float, wash_float, sold) ==
  IF ~sold.ok
  THEN row_result("ValueError", "Invalid Date sold or disposed format",
                  proceeds_float, basis_float, wash_float, {})
  ELSE process_acquired(c, proceeds_float, basis_float, wash_float, strftime(sold),
                        resolve_date_acquired(c.date_acquired, strftime(sold)))

\* the loop body from the validation of the monetary values on
process_cleaned(c) ==
  IF ~monetary_values_ok(c)
  THEN row_result("ValueError", "Invalid monetary value in row", 0, 0, 0, {})
  ELSE process_dates(c, float(c.proceeds).val, float(c.basis).val,
                     wash_value(c.wash).val, strptime(c.date_sold))

\* the loop body on the values read from the row
process_values(v) ==
  IF raises_attribute_error(v)
  THEN row_result("AttributeError", "", 0, 0, 0, {})
  ELSE process_cleaned(clean_values(v))

\* the loop body on one row
process_row(fields, r) == process_values(row_values(fields, r))

\* the field names of the header rows of the input files
HeaderFields ==
  UNION { { csv_fields(strip(f[i])) : i \in header_matches(f) } : f \in InputFiles }

\* a row with a missing field: AttributeError leaves the function
RowRaises(r, res) ==
      /\ res.raised = "AttributeError"
      /\ outcome' = "raised"
      /\ exc' = "AttributeError"
      /\ pc' = "except"
      /\ UNCHANGED <<txf_file, totals, stdout, written>>

\* a row with an invalid monetary value or date: reported and skipped; the
\* wash-adjusted total has been updated once the monetary values are parsed
RowSkipped(r, res) ==
      /\ res.raised = "ValueError"
      /\ total_wash_adjusted_gain_loss' =
           total_wash_adjusted_gain_loss + res.adjusted
      /\ outcome' = "skipped"
      /\ stdout' = Append(stdout, message("row_error", res.msg, r))
      /\ pc' = "rows"
      /\ UNCHANGED <<txf_file, total_proceeds, total_basis, total_wash, exc,
                     written>>

\* a valid row: the totals are updated and the record is written
RowWritten(r, res) ==
      /\ res.raised = "none"
      /\ total_wash_adjusted_gain_loss' =
           total_wash_adjusted_gain_loss + res.adjusted
      /\ total_proceeds' = new_total_proceeds(total_proceeds, res.proceeds)
      /\ total_basis' = new_total_basis(total_basis, res.basis)
      /\ total_wash' = new_total_wash(total_wash, res.wash)
      /\ \E record \in res.records :
           txf_file' = [txf_file EXCEPT !.content = @ \o record]
      /\ written' = Append(written,
                      [row |-> r, proceeds |-> res.proceeds,
                       basis |-> res.basis, wash |-> res.wash])
      /\ outcome' = "written"
      /\ pc' = "rows"
      /\ UNCHANGED <<stdout, exc>>

\* one iteration of the loop over the reader's rows
ProcessRow ==
  /\ pc = "rows"
  /\ n_rows < MaxRows
  /\ \E r \in Rows(Len(fieldnames)) :
       /\ row' = r
       /\ n_rows' = n_rows + 1
       /\ \E res \in {process_row(fieldnames, r)} :
            \/ RowRaises(r, res)
            \/ RowSkipped(r, res)
            \/ RowWritten(r, res)
  /\ UNCHANGED <<environment, located>>

\* the reader is exhausted: the totals are printed and the function returns
PrintTotals ==
  /\ pc = "rows"
  /\ \E tp \in format_2f(total_proceeds),
        tb \in format_2f(total_basis),
        tw \in format_2f(total_wash),
        tg \in format_2f(total_proceeds - total_basis),
        ta \in format_2f(total_wash_adjusted_gain_loss) :
       stdout' = Append(stdout,
                   message("totals",
                           "Verify these totals with your Schwab 1099-B summary:",
                           <<tp, tb, tw, tg, ta>>))
  /\ pc' = "return"
  /\ UNCHANGED << environment, txf_file, located, n_rows, row, outcome,
                  totals, exc, written >>

(***************************************************************************)
(* The main block.                                                         *)
(***************************************************************************)
\* the conversion returned the output path
MainComplete ==
  /\ pc = "return"
  /\ stdout' = Append(stdout, message("complete", "Conversion complete.", <<>>))
  /\ pc' = "done"
  /\ UNCHANGED << environment, txf_file, located, n_rows, row, outcome,
                  totals, exc, written >>

\* the conversion raised: the exception is reported
MainExcept ==
  /\ pc = "except"
  /\ stdout' = Append(stdout,
                 message("error",
                         CASE exc = "FileNotFoundError" -> "Error: Input file not found."
                           [] exc = "ValueError" ->
                                "Error: No Form 1099-B header found in the CSV file"
                           [] OTHER -> "An unexpected error occurred", <<>>))
  /\ pc' = "done"
  /\ UNCHANGED << environment, txf_file, located, n_rows, row, outcome,
                  totals, exc, written >>

Next ==
  \/ ReadLines
  \/ LocateHeader
  \/ OpenOutput
  \/ write_txf_header
  \/ ProcessRow
  \/ PrintTotals
  \/ MainComplete
  \/ MainExcept

Spec == Init /\ [][Next]_vars

(***************************************************************************)
(* Definitions used to state the properties.                               *)
(***************************************************************************)
content == txf_file.content

\* the header block has been written by this run
header_written == header_found /\ pc \notin {"open", "header"}

\* the lines after the header block
records_part == SubSeq(content, 5, Len(content))

\* the record block written last: ten lines, or eleven with a wash-sale line
last_block ==
  IF Len(content) >= 15 /\ content[Len(content) - 10] = TD_LINE
  THEN SubSeq(content, Len(content) - 10, Len(content))
  ELSE SubSeq(content, Len(content) - 9, Len(content))

\* the blocks of lines that c is made of, each ended at its first terminator
\* line; the lines after the last terminator line make a last, unended block
RECURSIVE blocks(_)
blocks(c) ==
  IF c = <<>> THEN <<>>
  ELSE IF \E i \in 1..Len(c) : c[i] = CARET_LINE
  THEN LET k == CHOOSE i \in 1..Len(c) :
                  c[i] = CARET_LINE /\ \A j \in 1..(i - 1) : c[j] # CARET_LINE
       IN  <<SubSeq(c, 1, k)>> \o blocks(SubSeq(c, k + 1, Len(c)))
  ELSE <<c>>

\* the lines the step appends to the output file
appended ==
  SubSeq(txf_file'.content, Len(txf_file.content) + 1, Len(txf_file'.content))

well_formed_block(b) ==
  /\ Len(b) \in {10, 11}
  /\ b[1] = TD_LINE
  /\ b[2] \in {N321, N711, N712, N323, N713, N714}
  /\ b[3] = C1_LINE
  /\ b[4] = L1_LINE
  /\ Head(b[5]) = "P"
  /\ Head(b[6]) = "D"
  /\ Head(b[7]) = "D"
  /\ Head(b[8]) = "$"
  /\ Head(b[9]) = "$"
  /\ Len(b) = 11 => Head(b[10]) = "$"
  /\ b[Len(b)] = CARET_LINE

\* an amount text with exactly two decimals
two_decimals(t) ==
  LET u == IF t # <<>> /\ Head(t) = "-" THEN Tail(t) ELSE t
  IN  /\ Len(u) >= 4
      /\ u[Len(u) - 2] = "."
      /\ AllDigits(SubSeq(u, 1, Len(u) - 3))
      /\ AllDigits(SubSeq(u, Len(u) - 1, Len(u)))

\* the amount text t is x rounded to the cent
rounds_to(t, x) == two_decimals(t) /\ Abs(float(t).val - x) <= 5

RECURSIVE sum_seq(_)
sum_seq(s) == IF s = <<>> THEN 0 ELSE Head(s) + sum_seq(Tail(s))

written_proceeds == sum_seq([i \in 1..Len(written) |-> written[i].proceeds])

written_basis == sum_seq([i \in 1..Len(written) |-> written[i].basis])

written_wash == sum_seq([i \in 1..Len(written) |-> written[i].wash])

\* the values of the current row
current_code == dict_get(fieldnames, row, COL_FORM_CODE, <<>>)

current_date_acquired == dict_get(fieldnames, row, COL_DATE_ACQUIRED, <<>>)

current_proceeds == dict_get(fieldnames, row, COL_PROCEEDS, DEFAULT_AMOUNT)

current_basis == dict_get(fieldnames, row, COL_BASIS, DEFAULT_AMOUNT)

current_wash == dict_get(fieldnames, row, COL_WASH, DEFAULT_AMOUNT)

printed(kind) == \E i \in 1..Len(stdout) : stdout[i].kind = kind

\* no line of the input file begins, once stripped, with the header text
no_header_line ==
  \A i \in 1..Len(csv_file.lines) :
    ~startswith(strip(csv_file.lines[i]), HEADER_PREFIX)

(***************************************************************************)
(* C1: for an input with the header line, no data row aborts the           *)
(* conversion: every row is written or skipped with a diagnostic, and the  *)
(* run ends with the totals report and the completion message.             *)
(***************************************************************************)
C1_NoRowAbortsTheRun ==
  header_found =>
    /\ outcome \in {"none", "written", "skipped"}
    /\ exc = "none"
    /\ pc = "done" => printed("totals") /\ printed("complete")

(***************************************************************************)
(* C2: the wash-adjusted total is the sum of proceeds - (basis - wash)     *)
(* over exactly the rows written, so it equals                             *)
(* proceeds_sum - basis_sum + wash_sum.                                    *)
(***************************************************************************)
C2_WashAdjustedOnlyWrittenRows ==
  /\ total_wash_adjusted_gain_loss =
       sum_seq([i \in 1..Len(written) |->
                  written[i].proceeds - (written[i].basis - written[i].wash)])
  /\ total_wash_adjusted_gain_loss = total_proceeds - total_basis + total_wash

(***************************************************************************)
(* C3 as stated: the record of a written row has a wash-sale line if and   *)
(* only if the parsed wash value is non-zero, however small.               *)
(***************************************************************************)
C3_WashLineIffNonZero ==
  outcome = "written" =>
    (Len(last_block) = 11 <=> written[Len(written)].wash # 0)

(***************************************************************************)
(* C3 amended: the record of a written row has a wash-sale line if and     *)
(* only if the wash value rounded to two decimals is non-zero: a wash      *)
(* below half a cent in magnitude is omitted like zero, a wash above half  *)
(* a cent is present, and a line that is present is the wash value         *)
(* formatted to exactly two decimals.                                      *)
(***************************************************************************)
C3_WashLineIffRoundedNonZero ==
  outcome = "written" =>
    LET w == written[Len(written)].wash
    IN  /\ Abs(w) < 5 => Len(last_block) = 10
        /\ Abs(w) > 5 => Len(last_block) = 11
        /\ Len(last_block) = 11 =>
             /\ rounds_to(Tail(last_block[10]), w)
             /\ float(Tail(last_block[10])).val # 0

C3_Witness ==
  /\ Len(written) = 2
  /\ written[1].wash = 25000
  /\ Len(blocks(records_part)) = 2
  /\ blocks(records_part)[1][10] = <<"$", "2", "5", ".", "0", "0">>
  /\ written[2].wash = 1
  /\ Len(blocks(records_part)[2]) = 10

(***************************************************************************)
(* C4: the record type of every written record is given by the table on    *)
(* the trimmed, uppercased Form 8949 code, N711 for any other or missing   *)
(* code; an unknown or blank code never makes an otherwise valid row be    *)
(* skipped.                                                                *)
(***************************************************************************)
claimed_record_type(code) ==
  IF code = <<"A">> THEN N321
  ELSE IF code = <<"B">> THEN N711
  ELSE IF code = <<"C">> THEN N712
  ELSE IF code = <<"D">> THEN N323
  ELSE IF code = <<"E">> THEN N713
  ELSE IF code = <<"F">> THEN N714
  ELSE N711

\* the fields other than the code are those of the valid row
otherwise_valid(r) ==
  \A i \in 1..6 : i <= Len(fieldnames) => i <= Len(r) /\ r[i] = BaseRow[i]

C4_RecordTypeFromCode ==
  /\ outcome = "written" =>
       /\ last_block[2] = claimed_record_type(upper(strip(current_code)))
       /\ last_block[2] \in {N321, N711, N712, N323, N713, N714}
  /\ (n_rows > 0 /\ otherwise_valid(row) /\ current_code # None) =>
       outcome = "written"

C4_Witness ==
  /\ outcome = "written"
  /\ current_code = <<" ", "d", " ">>
  /\ last_block[2] = N323

(***************************************************************************)
(* C5 as stated: for a row with valid monetary fields and a valid date     *)
(* sold, an empty date acquired gives the date sold, "various" gives       *)
(* VARIOUS, a valid date in MM/DD/YYYY gives that date, and anything else  *)
(* makes the row be skipped; a row whose date sold is not a valid          *)
(* MM/DD/YYYY date is never written.                                       *)
(***************************************************************************)
\* a valid calendar date written as two digits, two digits, four digits
strict_date(s) ==
  /\ Len(s) = 10
  /\ s[3] = "/" /\ s[6] = "/"
  /\ \A i \in {1, 2, 4, 5, 7, 8, 9, 10} : IsDigit(s[i])
  /\ strptime(s).ok

money_fields_valid(v) ==
  /\ \A k \in DOMAIN v : v[k] # None
  /\ float(strip(remove_commas(v.proceeds))).ok
  /\ float(strip(remove_commas(v.basis))).ok
  /\ wash_value(strip_dollar(strip(remove_commas(v.wash)))).ok

\* what the claim says of a row, with valid standing for strict_date
strict_claim(fields, r) ==
  LET v == row_values(fields, r)
      acq == strip(v.date_acquired)
      sold == strip(v.date_sold)
  IN  IF v.date_sold = None \/ ~strict_date(sold) THEN [kind |-> "none"]
      ELSE IF ~money_fields_valid(v) THEN [kind |-> "any"]
      ELSE IF acq = <<>> THEN [kind |-> "line", line |-> <<"D">> \o sold]
      ELSE IF lower(acq) = VARIOUS_LOWER
      THEN [kind |-> "line", line |-> <<"D">> \o VARIOUS_UPPER]
      ELSE IF strict_date(acq) THEN [kind |-> "line", line |-> <<"D">> \o acq]
      ELSE [kind |-> "skipped"]

strict_claims ==
  [fields \in HeaderFields, r \in AllRows |-> strict_claim(fields, r)] @@ <<>>

\* the step does to the output file what the claim says
step_meets(claim) ==
  CASE claim.kind = "none" -> appended = <<>>
    [] claim.kind = "skipped" -> appended = <<>> /\ outcome' = "skipped"
    [] claim.kind = "line" -> Len(appended) >= 10 /\ appended[6] = claim.line
    [] OTHER -> TRUE

C5_StrictDates ==
  [][n_rows' = n_rows + 1 => step_meets(strict_claims[fieldnames, row'])]_vars

(***************************************************************************)
(* C5 amended: a date is valid when strptime accepts it under %m/%d/%Y,    *)
(* that is a calendar date with a month and a day of one or two digits     *)
(* and a year of four digits; a valid date acquired is written             *)
(* zero-padded as MM/DD/YYYY, and so is the date sold.  An empty date      *)
(* acquired gives the date sold, "various" gives VARIOUS, any other date   *)
(* acquired makes the row be skipped; a row whose date sold is not valid   *)
(* is never written.                                                       *)
(***************************************************************************)
lenient_claim(fields, r) ==
  LET v == row_values(fields, r)
      acq == strip(v.date_acquired)
      sold == strip(v.date_sold)
  IN  IF v.date_sold = None \/ ~strptime(sold).ok THEN [kind |-> "none"]
      ELSE IF ~money_fields_valid(v) THEN [kind |-> "any"]
      ELSE IF acq = <<>>
      THEN [kind |-> "line", line |-> <<"D">> \o strftime(strptime(sold))]
      ELSE IF lower(acq) = VARIOUS_LOWER
      THEN [kind |-> "line", line |-> <<"D">> \o VARIOUS_UPPER]
      ELSE IF strptime(acq).ok
      THEN [kind |-> "line", line |-> <<"D">> \o strftime(strptime(acq))]
      ELSE [kind |-> "skipped"]

lenient_claims ==
  [fields \in HeaderFields, r \in AllRows |-> lenient_claim(fields, r)] @@ <<>>

\* the two date lines of a written record are zero-padded dates or VARIOUS
dates_padded ==
  Len(appended) >= 10 =>
    /\ strict_date(Tail(appended[7]))
    /\ strict_date(Tail(appended[6])) \/ appended[6] = <<"D">> \o VARIOUS_UPPER

C5_LenientDates ==
  [][n_rows' = n_rows + 1 =>
       step_meets(lenient_claims[fieldnames, row']) /\ dates_padded]_vars

C5_Witness ==
  /\ outcome = "written"
  /\ current_date_acquired = <<"1", "/", "5", "/", "2", "0", "2", "3">>
  /\ last_block[6] = <<"D", "0", "1", "/", "0", "5", "/", "2", "0", "2", "3">>

(***************************************************************************)
(* C6: when no line of the input begins with the header text, the output   *)
(* file is never created or truncated, nothing is written, and neither     *)
(* the totals nor the completion message is printed.                       *)
(***************************************************************************)
C6_NoHeaderState ==
  no_header_line =>
    /\ txf_file \in OutputFilesBefore
    /\ pc \notin {"open", "header", "rows", "return"}
    /\ ~printed("totals")
    /\ ~printed("complete")

C6_NoHeaderNoOutput ==
  [](C6_NoHeaderState) /\ [][no_header_line => txf_file' = txf_file]_vars

C6_Witness ==
  /\ csv_file.exists
  /\ Len(csv_file.lines) = 2
  /\ no_header_line
  /\ pc = "done"
  /\ exc = "ValueError"
  /\ txf_file = [exists |-> TRUE, content |-> <<StaleLine>>]

(***************************************************************************)
(* C7: once the output file is open the header block is written once,      *)
(* before any record; after that the output is the header followed by one  *)
(* complete record block, ended by "^", for each row accepted so far, in   *)
(* the order of the rows.                                                  *)
(***************************************************************************)
C7_HeaderThenCompleteRecords ==
  /\ pc = "header" => content = <<>> /\ written = <<>>
  /\ header_written =>
       /\ Len(content) >= 4
       /\ content[1] = TXF_VERSION
       /\ content[2] = TXF_SOURCE
       /\ Head(content[3]) = "D"
       /\ content[4] = CARET_LINE
       /\ Cardinality({ i \in 1..Len(content) : content[i] = TXF_VERSION }) = 1
       /\ \A bs \in {blocks(records_part)} :
              /\ Len(bs) = Len(written)
              /\ \A k \in 1..Len(bs) :
                   /\ well_formed_block(bs[k])
                   /\ rounds_to(Tail(bs[k][8]), written[k].basis)
                   /\ rounds_to(Tail(bs[k][9]), written[k].proceeds)

C7_Witness ==
  /\ pc = "done"
  /\ Len(written) = 2
  /\ written[1].basis # written[2].basis
  /\ Len(content) >= 24

(***************************************************************************)
(* C8: the third line of the header block is "D" followed by the date of   *)
(* the run in MM/DD/YYYY.                                                  *)
(***************************************************************************)
C8_ExportDateIsToday ==
  header_written => content[3] = <<"D">> \o strftime(today)

(***************************************************************************)
(* C9: a row with a proceeds, basis or wash field that is not a number is  *)
(* skipped with a diagnostic, leaves the output file and the four totals   *)
(* unchanged, and the loop goes on to the later rows.                      *)
(***************************************************************************)
bad_money_field(v) ==
  \/ v.proceeds # None /\ ~float(strip(remove_commas(v.proceeds))).ok
  \/ v.basis # None /\ ~float(strip(remove_commas(v.basis))).ok
  \/ v.wash # None /\ ~wash_value(strip_dollar(strip(remove_commas(v.wash)))).ok

bad_money_rows ==
  [fields \in HeaderFields, r \in AllRows |->
     bad_money_field(row_values(fields, r))] @@ <<>>

C9_BadMoneyRowSkipped ==
  [][(n_rows' = n_rows + 1 /\ bad_money_rows[fieldnames, row']) =>
       /\ outcome' = "skipped"
       /\ pc' = "rows"
       /\ txf_file' = txf_file
       /\ totals' = totals
       /\ Len(stdout') = Len(stdout) + 1
       /\ stdout'[Len(stdout')].kind = "row_error"]_vars

(***************************************************************************)
(* C10: the proceeds, basis and wash totals are the sums of the parsed,    *)
(* unrounded values over the rows whose record was written, each added     *)
(* once; the totals printed are these sums and the printed gain/loss is    *)
(* the proceeds total minus the basis total.                               *)
(***************************************************************************)
C10_TotalsAreSumsOfWrittenRows ==
  /\ total_proceeds = written_proceeds
  /\ total_basis = written_basis
  /\ total_wash = written_wash
  /\ header_written =>
       Cardinality({ i \in 1..Len(content) : content[i] = TD_LINE }) = Len(written)
  /\ outcome = "written" =>
       LET w == written[Len(written)]
       IN  /\ w.row = row
           /\ w.proceeds = float(strip(remove_commas(current_proceeds))).val
           /\ w.basis = float(strip(remove_commas(current_basis))).val
           /\ w.wash =
                wash_value(strip_dollar(strip(remove_commas(current_wash)))).val
  /\ \A i \in 1..Len(stdout) :
       stdout[i].kind = "totals" =>
         /\ rounds_to(stdout[i].data[1], written_proceeds)
         /\ rounds_to(stdout[i].data[2], written_basis)
         /\ rounds_to(stdout[i].data[3], written_wash)
         /\ rounds_to(stdout[i].data[4], written_proceeds - written_basis)

C10_Witness ==
  /\ pc = "done"
  /\ printed("totals")
  /\ Len(written) = 2
  /\ written[1].proceeds # written[2].proceeds
  /\ total_wash # 0
====
